---- MODULE Spec2Model ----
(***************************************************************************)
(* Model of src/app.py, the Streamlit caption generator: upload a video,   *)
(* extract its audio, transcribe it with Whisper, edit and download.       *)
(*                                                                         *)
(* The script is executed top to bottom once per interaction (a "run").    *)
(* A run is modelled by four consecutive steps: Credentials (lines 17-32), *)
(* CreateClient (lines 50-68), Intake (lines 121-141, 189-190) and         *)
(* Pipeline (the try/except of lines 143-188).                             *)
(*                                                                         *)
(* Two specifications share these steps:                                   *)
(*   Spec        the script under the Streamlit runtime: a run is started  *)
(*               by one interaction with a widget the previous run         *)
(*               rendered, and a button reads True only in the run its     *)
(*               own click started;                                        *)
(*   SpecScript  the script body under every combination of values its     *)
(*               widget calls can return (uploader, both buttons,          *)
(*               selectbox, text area).                                    *)
(***************************************************************************)
EXTENDS Integers, Sequences, FiniteSets, TLC

VARIABLES
    secrets,          \* st.secrets: NoFile, None (no such key) or the key's value
    dotenv,           \* OPENAI_API_KEY in the .env file: None or its value
    environ,          \* os.environ["OPENAI_API_KEY"]: None or its value
    uploaded,         \* value of st.file_uploader: None or the uploaded video
    selFormat,        \* value selected in the st.selectbox
    buttons,          \* the buttons that read True in the current run
    trigger,          \* the interaction that started the current run
    pc,               \* position of the current run
    OPENAI_API_KEY,   \* script global, line 17
    client,           \* script global, line 50 (the api_key it was built with)
    ui,               \* elements rendered by the current run, in order
    video_tmp,        \* script global, line 133 (index into scratch)
    audio_mp3_path,   \* script global, line 145 (index into scratch)
    resp_format,      \* script global, line 141
    captions,         \* script global, line 155
    edited,           \* script global, line 161
    downloads,        \* the st.download_button calls of the current run
    calls,            \* the calls of extract_audio_to_mp3 / transcribe_audio of the run
    scratch,          \* the temporary files on disk, in order of creation
    extractions       \* history: (format selected, video, audio) of successful extractions

vars == <<secrets, dotenv, environ, uploaded, selFormat, buttons, trigger, pc,
          OPENAI_API_KEY, client, ui, video_tmp, audio_mp3_path, resp_format,
          captions, edited, downloads, calls, scratch, extractions>>

envVars == <<secrets, dotenv>>

\* ---------------------------------------------------------------- bounds
MaxTmp == 6          \* no run is started with fewer than two free scratch slots
MaxLen == 2          \* longest edited transcript, in code points

\* ---------------------------------------------------------------- values
None == "None"                    \* Python's None
NoFile == "NoSecretsFile"         \* st.secrets raises: no secrets.toml
NoPath == 0                       \* a path variable not yet bound
NoText == <<-1>>                  \* a text variable not yet bound

SecretValues == {NoFile, None, "", "sk-secret"}
DotenvValues == {None, "sk-dotenv"}
EnvironValues == {None, "", "sk-environ"}

Videos == {"clip.mp4", "corrupt.mkv"}
Formats == {"srt", "text"}        \* options of the selectbox, line 141
Buttons == {"extract", "transcribe"}

\* one code point of each UTF-8 length: A, a-ogonek, euro sign, clapper board
CodePoints == {65, 261, 8364, 127916}
Strings == UNION {[1..n -> CodePoints] : n \in 0..MaxLen}
Transcripts == {<<65>>, <<261, 127916>>}

El(w, arg) == [w |-> w, arg |-> arg]
Rendered(w) == \E i \in 1..Len(ui) : ui[i].w = w

\* ---------------------------------------------------------------- helpers
\* variant: the test `OPENAI_API_KEY is None`
KeyMissingIsNone(k) == k = None

\* `not OPENAI_API_KEY`
KeyMissing(k) == k = None \/ k = ""

\* lines 18-22: the lookup in st.secrets, any exception swallowed
SecretLookup == IF secrets = NoFile \/ secrets = None THEN None ELSE secrets

\* load_dotenv() with its default override=False: a variable the process
\* environment already defines is left alone
load_dotenv(env) == IF env = None /\ dotenv # None THEN dotenv ELSE env

\* variant: the copies of earlier runs are removed before the new one is written
save_uploaded_file_replacing(files, uploaded_file) ==
    Append(SelectSeq(files, LAMBDA f : f.kind # "video"),
           [kind |-> "video", content |-> uploaded_file])

\* line 76-81: NamedTemporaryFile(delete=False), written and closed
save_uploaded_file_to_temp(files, uploaded_file) ==
    Append(files, [kind |-> "video", content |-> uploaded_file])

\* what AudioSegment.from_file / export can do with a video
ExtractOutcomes(video) ==
    IF video = "clip.mp4" THEN {"ok", "decode_fail", "export_fail"} ELSE {"decode_fail"}

\* variant: the export uses the selected caption format
extract_audio_by_format(files, video_path) ==
    Append(files, [kind |-> "audio", content |-> resp_format])

\* lines 90-93: the file made by mkstemp and filled by export
extract_audio_to_mp3(files, video_path) ==
    Append(files, [kind |-> "audio", content |-> files[video_path].content])

\* the file mkstemp made when export raised
FailedExport(files) == Append(files, [kind |-> "audio", content |-> "partial"])

\* what client.audio.transcriptions.create can do
TranscribeOutcomes ==
    [ok : {TRUE}, text : Transcripts, msg : {"ok"}]
        \cup [ok : {FALSE}, text : {NoText}, msg : {"network error", "auth error"}]

\* value of st.text_area(value=captions): the default or what the user typed
TextAreaValues(default) == {default} \cup Strings

Utf8Char(c) ==
    IF c < 128 THEN <<c>>
    ELSE IF c < 2048 THEN <<192 + (c \div 64), 128 + (c % 64)>>
    ELSE IF c < 65536 THEN <<224 + (c \div 4096), 128 + ((c \div 64) % 64), 128 + (c % 64)>>
    ELSE <<240 + (c \div 262144), 128 + ((c \div 4096) % 64),
           128 + ((c \div 64) % 64), 128 + (c % 64)>>

RECURSIVE Utf8Encode(_)
Utf8Encode(s) == IF s = <<>> THEN <<>> ELSE Utf8Char(Head(s)) \o Utf8Encode(Tail(s))

\* variant: text.encode("ascii", "replace")
bytes_ascii_replace(text) == [i \in 1..Len(text) |-> IF text[i] < 128 THEN text[i] ELSE 63]

\* lines 114-115
bytes_for_download(text) == Utf8Encode(text)

\* variant: the name does not follow the format
default_name_fixed(fmt) == "captions.srt"

\* line 164
default_name(fmt) == IF fmt = "srt" THEN "captions.srt" ELSE "captions.txt"

\* lines 165-180: the download buttons
DownloadButtons(text, fmt) ==
    <<[label |-> "Pobierz napisy", data |-> bytes_for_download(text),
       file_name |-> default_name(fmt), mime |-> "text/plain"]>>
    \o (IF fmt = "srt"
        THEN <<[label |-> "Pobierz napisy jako .txt", data |-> bytes_for_download(text),
                file_name |-> "captions.txt", mime |-> "text/plain"]>>
        ELSE <<>>)

\* variant: a generic message instead of the exception's, and no hint
ErrorElementsGeneric(msg) == <<El("error", "-")>>

\* lines 182-188
ErrorElements(msg) == <<El("error", msg), El("info_ffmpeg_hint", "-")>>

\* ---------------------------------------------------------------- runs
FreshRun ==
    /\ OPENAI_API_KEY' = None
    /\ client' = None
    /\ ui' = <<>>
    /\ video_tmp' = NoPath
    /\ audio_mp3_path' = NoPath
    /\ resp_format' = None
    /\ captions' = NoText
    /\ edited' = NoText
    /\ downloads' = <<>>
    /\ calls' = <<>>

Init ==
    /\ secrets \in SecretValues
    /\ dotenv \in DotenvValues
    /\ environ \in EnvironValues
    /\ uploaded = None
    /\ selFormat = "srt"
    /\ buttons = {}
    /\ trigger = "load"
    /\ pc = "start"
    /\ OPENAI_API_KEY = None
    /\ client = None
    /\ ui = <<>>
    /\ video_tmp = NoPath
    /\ audio_mp3_path = NoPath
    /\ resp_format = None
    /\ captions = NoText
    /\ edited = NoText
    /\ downloads = <<>>
    /\ calls = <<>>
    /\ scratch = <<>>
    /\ extractions = {}

\* lines 17-32
Credentials ==
    /\ pc = "start"
    /\ LET k1 == SecretLookup
           env2 == IF KeyMissing(k1) THEN load_dotenv(environ) ELSE environ
           k2 == IF KeyMissing(k1) THEN env2 ELSE k1
       IN  /\ environ' = env2
           /\ OPENAI_API_KEY' = k2
           /\ IF KeyMissing(k2)
              THEN /\ ui' = Append(ui, El("error_no_key", "-"))
                   /\ pc' = "stopped"
              ELSE /\ ui' = ui
                   /\ pc' = "client"
    /\ UNCHANGED <<envVars, uploaded, selFormat, buttons, trigger, client, video_tmp,
                   audio_mp3_path, resp_format, captions, edited, downloads, calls,
                   scratch, extractions>>

\* lines 50-68
CreateClient ==
    /\ pc = "client"
    /\ client' = OPENAI_API_KEY
    /\ ui' = ui \o <<El("title", "-"), El("caption", "-"), El("expander", "-")>>
    /\ pc' = "main"
    /\ UNCHANGED <<envVars, environ, uploaded, selFormat, buttons, trigger, OPENAI_API_KEY,
                   video_tmp, audio_mp3_path, resp_format, captions, edited, downloads,
                   calls, scratch, extractions>>

\* lines 121-141 and 189-190
Intake ==
    /\ pc = "main"
    /\ LET ui1 == ui \o <<El("subheader_1", "-"), El("file_uploader", "-")>>
       IN  IF uploaded # None
           THEN /\ scratch' = save_uploaded_file_to_temp(scratch, uploaded)
                /\ video_tmp' = Len(scratch')
                /\ resp_format' = selFormat
                /\ ui' = ui1 \o <<El("video", uploaded), El("subheader_2", "-"),
                                  El("button_extract", "-"), El("selectbox", selFormat)>>
                /\ pc' = IF "extract" \in buttons THEN "try" ELSE "done"
           ELSE /\ ui' = Append(ui1, El("info_upload", "-"))
                /\ pc' = "done"
                /\ UNCHANGED <<scratch, video_tmp, resp_format>>
    /\ UNCHANGED <<envVars, environ, uploaded, selFormat, buttons, trigger, OPENAI_API_KEY,
                   client, audio_mp3_path, captions, edited, downloads, calls, extractions>>

\* variant: a failed decode is tried a second time
ExtractCallsRetry(result) ==
    LET call == [fn |-> "extract_audio_to_mp3", path |-> video_tmp, fmt |-> "-",
                 result |-> result]
    IN  IF result = "ok" THEN <<call>> ELSE <<call, call>>

\* line 145: the invocations of extract_audio_to_mp3 made by the run, with
\* "ok" or the message of the exception as result
ExtractCalls(result) ==
    <<[fn |-> "extract_audio_to_mp3", path |-> video_tmp, fmt |-> "-", result |-> result]>>

\* variant: the video path is passed on instead of the audio path
TranscribeCallsVideo(path, fmt, result) ==
    <<[fn |-> "transcribe_audio", path |-> video_tmp, fmt |-> fmt, result |-> result]>>

\* line 155: the invocations of transcribe_audio made by the run
TranscribeCalls(path, fmt, result) ==
    <<[fn |-> "transcribe_audio", path |-> path, fmt |-> fmt, result |-> result]>>

\* lines 143-188: the try block and its handler
Pipeline ==
    /\ pc = "try"
    /\ pc' = "done"
    /\ \E out \in ExtractOutcomes(scratch[video_tmp].content) :
          IF out # "ok"
          THEN \* extract_audio_to_mp3 raised: lines 182-188
               /\ calls' = ExtractCalls(out)
               /\ scratch' = IF out = "export_fail" THEN FailedExport(scratch) ELSE scratch
               /\ ui' = ui \o ErrorElements(out)
               /\ UNCHANGED <<audio_mp3_path, captions, edited, downloads, extractions>>
          ELSE \* lines 145-153
               LET files == extract_audio_to_mp3(scratch, video_tmp)
                   path == Len(files)
                   ui2 == ui \o <<El("audio", files[path].content), El("success_audio", "-"),
                                  El("subheader_3", "-"), El("button_transcribe", "-")>>
               IN  /\ scratch' = files
                   /\ audio_mp3_path' = path
                   /\ extractions' = extractions \cup
                          {[fmt |-> resp_format, video |-> files[video_tmp].content,
                            audio |-> files[path].content]}
                   /\ IF "transcribe" \notin buttons
                      THEN /\ calls' = ExtractCalls("ok")
                           /\ ui' = ui2
                           /\ UNCHANGED <<captions, edited, downloads>>
                      ELSE \* lines 154-180
                           \E resp \in TranscribeOutcomes :
                              IF ~resp.ok
                              THEN \* transcribe_audio raised: lines 182-188
                                   /\ calls' = ExtractCalls("ok")
                                                 \o TranscribeCalls(path, resp_format, resp.msg)
                                   /\ ui' = ui2 \o <<El("spinner", "-")>> \o ErrorElements(resp.msg)
                                   /\ UNCHANGED <<captions, edited, downloads>>
                              ELSE \E text \in TextAreaValues(resp.text) :
                                   /\ calls' = ExtractCalls("ok")
                                                 \o TranscribeCalls(path, resp_format, "ok")
                                   /\ captions' = resp.text
                                   /\ edited' = text
                                   /\ downloads' = DownloadButtons(text, resp_format)
                                   /\ ui' = ui2 \o <<El("spinner", "-"),
                                                     El("success_transcription", "-"),
                                                     El("subheader_4", "-"), El("text_area", "-"),
                                                     El("subheader_5", "-"), El("download", "-")>>
                                              \o (IF resp_format = "srt"
                                                  THEN <<El("download_txt", "-")>> ELSE <<>>)
    /\ UNCHANGED <<envVars, environ, uploaded, selFormat, buttons, trigger, OPENAI_API_KEY,
                   client, video_tmp, resp_format>>

\* ---------------------------------------------------------------- interactions
CanStart == pc \in {"done", "stopped"} /\ Len(scratch) + 2 <= MaxTmp

StartRun(t, b) ==
    /\ pc' = "start"
    /\ trigger' = t
    /\ buttons' = b
    /\ FreshRun
    /\ UNCHANGED <<envVars, environ, scratch, extractions>>

\* the browser (re)loads the page: a new session
Reload ==
    /\ CanStart
    /\ uploaded' = None
    /\ selFormat' = "srt"
    /\ StartRun("load", {})

\* the user puts a file in the uploader
Upload(v) ==
    /\ CanStart
    /\ Rendered("file_uploader")
    /\ uploaded # v
    /\ uploaded' = v
    /\ UNCHANGED selFormat
    /\ StartRun("file_uploader", {})

\* the user removes the file; the selectbox is no longer rendered and
\* loses its state
RemoveUpload ==
    /\ CanStart
    /\ Rendered("file_uploader")
    /\ uploaded # None
    /\ uploaded' = None
    /\ selFormat' = "srt"
    /\ StartRun("file_uploader", {})

SelectFormat(f) ==
    /\ CanStart
    /\ Rendered("selectbox")
    /\ selFormat # f
    /\ selFormat' = f
    /\ UNCHANGED uploaded
    /\ StartRun("selectbox", {})

ClickExtract ==
    /\ CanStart
    /\ Rendered("button_extract")
    /\ UNCHANGED <<uploaded, selFormat>>
    /\ StartRun("button_extract", {"extract"})

ClickTranscribe ==
    /\ CanStart
    /\ Rendered("button_transcribe")
    /\ UNCHANGED <<uploaded, selFormat>>
    /\ StartRun("button_transcribe", {"transcribe"})

\* the script body started with any values of its widgets
AnyRun(u, f, b) ==
    /\ CanStart
    /\ uploaded' = u
    /\ selFormat' = f
    /\ StartRun("any", b)

Next ==
    \/ Credentials
    \/ CreateClient
    \/ Intake
    \/ Pipeline
    \/ Reload
    \/ \E v \in Videos : Upload(v)
    \/ RemoveUpload
    \/ \E f \in Formats : SelectFormat(f)
    \/ ClickExtract
    \/ ClickTranscribe

Spec == Init /\ [][Next]_vars

NextScript ==
    \/ Credentials
    \/ CreateClient
    \/ Intake
    \/ Pipeline
    \/ \E u \in {None} \cup Videos, f \in Formats, b \in SUBSET Buttons : AnyRun(u, f, b)

SpecScript == Init /\ [][NextScript]_vars

TypeOK ==
    /\ pc \in {"start", "client", "main", "try", "done", "stopped"}
    /\ uploaded \in {None} \cup Videos
    /\ selFormat \in Formats
    /\ buttons \subseteq Buttons
    /\ Len(scratch) <= MaxTmp
\* ---------------------------------------------------------------- claims
Done == pc = "done"
PastCredentials == pc \in {"client", "main", "try", "done"}
IsExtract(c) == c.fn = "extract_audio_to_mp3"
IsTranscribe(c) == c.fn = "transcribe_audio"
CallIdx == 1..Len(calls)
Failed(c) == c.result # "ok"

\* strict UTF-8 decoding of a byte sequence, <<-1>> marking undecodable input
RECURSIVE Utf8Decode(_)
Utf8Decode(b) ==
    IF b = <<>> THEN <<>>
    ELSE LET h == Head(b)
             n == IF h < 128 THEN 1 ELSE IF h < 224 THEN 2 ELSE IF h < 240 THEN 3 ELSE 4
             cont(i) == b[i] % 64
             isCont(i) == b[i] \in 128..191
         IN  IF h \in 128..191 \/ h > 247 \/ Len(b) < n
                \/ \E i \in 2..n : ~isCont(i)
             THEN <<-1>>
             ELSE <<CASE n = 1 -> h
                      [] n = 2 -> (h % 32) * 64 + cont(2)
                      [] n = 3 -> (h % 16) * 4096 + cont(2) * 64 + cont(3)
                      [] n = 4 -> (h % 8) * 262144 + cont(2) * 4096 + cont(3) * 64 + cont(4)>>
                  \o Utf8Decode(SubSeq(b, n + 1, Len(b)))

NoKeyAnywhere ==
    /\ secrets \in {NoFile, None, ""}
    /\ dotenv \in {None, ""}
    /\ environ \in {None, ""}

\* C1: with no API key in the secret store, the .env file and the process
\* environment the run shows the error and stops with no client created and
\* no widget rendered; whenever the client exists, a widget is rendered or a
\* stage has run, OPENAI_API_KEY is a non-empty string.
C1_CredentialGate ==
    /\ NoKeyAnywhere => pc \in {"start", "stopped"}
    /\ pc = "stopped" =>
          /\ ui = <<El("error_no_key", "-")>>
          /\ client = None
          /\ calls = <<>>
    /\ (PastCredentials \/ client # None \/ calls # <<>>
          \/ \E i \in 1..Len(ui) : ui[i].w # "error_no_key")
       => OPENAI_API_KEY \notin {None, ""}

C1_Witness == pc = "stopped" /\ NoKeyAnywhere /\ Rendered("error_no_key")

\* C2: the key used comes from the secret store if it has one, otherwise from
\* the .env file, otherwise from the process environment; with no key in the
\* secret store and different values in .env and the environment, the .env
\* value is the one used.
C2_Precedence ==
    PastCredentials =>
        IF secrets \notin {NoFile, None, ""} THEN OPENAI_API_KEY = secrets
        ELSE IF dotenv # None THEN OPENAI_API_KEY = dotenv
        ELSE OPENAI_API_KEY = environ

\* C3: a video scratch file is saved only with an upload present,
\* extract_audio_to_mp3 is called only with the saved video path,
\* transcribe_audio only with the audio path a successful extraction
\* returned, and the editor and download widgets are rendered only after
\* transcribe_audio returned a transcript.
C3_StageOrdering ==
    /\ video_tmp # NoPath =>
          /\ uploaded # None
          /\ video_tmp \in 1..Len(scratch)
          /\ scratch[video_tmp] = [kind |-> "video", content |-> uploaded]
    /\ \A i \in CallIdx : IsExtract(calls[i]) =>
          /\ video_tmp # NoPath
          /\ calls[i].path = video_tmp
    /\ \A i \in CallIdx : IsTranscribe(calls[i]) =>
          /\ audio_mp3_path # NoPath
          /\ calls[i].path = audio_mp3_path
          /\ scratch[calls[i].path].kind = "audio"
          /\ \E j \in 1..(i - 1) : IsExtract(calls[j]) /\ ~Failed(calls[j])
    /\ (Rendered("text_area") \/ Rendered("download") \/ Rendered("download_txt")
          \/ downloads # <<>>) =>
          /\ captions # NoText
          /\ \E i \in CallIdx : IsTranscribe(calls[i]) /\ ~Failed(calls[i])

C3_Witness ==
    /\ Done
    /\ Rendered("text_area")
    /\ Rendered("download")
    /\ Len(calls) = 2
    /\ captions \in Transcripts

\* C4: after an upload, a click on the extract button and a successful
\* extraction, the run started by the click on the transcribe button invokes
\* transcribe_audio with the selected format and presents the editor and the
\* download button.
C4_TranscribeReached ==
    (Done /\ trigger = "button_transcribe") =>
        /\ \E i \in CallIdx : IsTranscribe(calls[i]) /\ calls[i].fmt = selFormat
        /\ Rendered("text_area")
        /\ Rendered("download")

\* C5: an exception of extract_audio_to_mp3 or transcribe_audio is caught: the
\* run completes, the exception's message and the ffmpeg hint are shown, the
\* uploader, the extract button and the selectbox of the run stay available,
\* and no later-stage widget is rendered (no transcribe button after a failed
\* extraction, no editor or download after a failed transcription).
C5_CatchAll ==
    \A i \in CallIdx : Failed(calls[i]) =>
        /\ Done
        /\ Len(ui) >= 2
        /\ ui[Len(ui) - 1] = El("error", calls[i].result)
        /\ ui[Len(ui)] = El("info_ffmpeg_hint", "-")
        /\ Rendered("file_uploader") /\ Rendered("button_extract") /\ Rendered("selectbox")
        /\ ~Rendered("text_area") /\ ~Rendered("download") /\ ~Rendered("download_txt")
        /\ downloads = <<>>
        /\ IsExtract(calls[i]) => ~Rendered("button_transcribe") /\ audio_mp3_path = NoPath

C5_Witness ==
    /\ Done
    /\ Len(calls) = 2
    /\ Failed(calls[2])
    /\ Rendered("error")

C8_FormatFrame ==
    /\ trigger = "selectbox" =>
          /\ calls = <<>>
          /\ audio_mp3_path = NoPath
          /\ pc \in {"try", "done"} => resp_format = selFormat
    /\ \A e1, e2 \in extractions : e1.video = e2.video => e1.audio = e2.audio

C8_Witness ==
    /\ Done
    /\ \E e1, e2 \in extractions : e1.video = e2.video /\ e1.fmt # e2.fmt

\* C9: a run calls extract_audio_to_mp3 at most once and transcribe_audio at
\* most once, a failed call is the last call of its run, and a call is made
\* only in a run in which the button of its stage reads True.
C9_NoRetries ==
    /\ Cardinality({i \in CallIdx : IsExtract(calls[i])}) <= 1
    /\ Cardinality({i \in CallIdx : IsTranscribe(calls[i])}) <= 1
    /\ \A i \in CallIdx : Failed(calls[i]) => i = Len(calls)
    /\ \A i \in CallIdx : IsExtract(calls[i]) => "extract" \in buttons
    /\ \A i \in CallIdx : IsTranscribe(calls[i]) => Buttons \subseteq buttons

C9_Witness ==
    /\ Done
    /\ \E i \in CallIdx : IsTranscribe(calls[i]) /\ Failed(calls[i])

\* C10: no step removes or replaces a scratch file; the intake of every run
\* with an upload present adds exactly one video scratch file, whatever
\* started the run, and every successful extraction adds exactly one audio
\* scratch file.
C10_ScratchAccumulates ==
    [][/\ Len(scratch') >= Len(scratch)
       /\ SubSeq(scratch', 1, Len(scratch)) = scratch
       /\ (pc = "main" /\ uploaded # None) =>
             /\ Len(scratch') = Len(scratch) + 1
             /\ scratch'[Len(scratch')] = [kind |-> "video", content |-> uploaded]
       /\ (pc = "try" /\ audio_mp3_path' # NoPath) =>
             /\ Len(scratch') = Len(scratch) + 1
             /\ scratch'[Len(scratch')].kind = "audio"]_vars

C10_Witness ==
    /\ Done
    /\ trigger = "selectbox"
    /\ Cardinality({i \in 1..Len(scratch) : scratch[i] = [kind |-> "video", content |-> uploaded]}) >= 3
    /\ \E i \in 1..Len(scratch) : scratch[i].kind = "audio"
====
